---- MODULE Spec2Model ----
(***************************************************************************)
(* koishi-plugin-market-info: the poll / diff / dispatch pipeline.         *)
(*                                                                         *)
(* Three of the repository's versions of apply() are modelled, selected by *)
(* config.variant:                                                         *)
(*   "index.tsx"  src/src/index.tsx          (receive command, delay,      *)
(*                                            ctx.bots.find, bot.send)     *)
(*   "part_000"   src/unnamed/part_000:104   (JSX diff, database lookup,   *)
(*                                            bot?.sendMessage)            *)
(*   "index.ts"   src/src/index.ts:1         (plain diff, database lookup) *)
(*                                                                         *)
(* Text is a sequence of UTF-16 code units, so that Array.prototype.sort   *)
(* and template strings can be computed as JavaScript computes them.       *)
(* An optional value (a version, a selfId) is a sequence of length <= 1:   *)
(* <<>> is undefined, <<t>> is the value t.                                *)
(***************************************************************************)
EXTENDS Integers, Sequences, FiniteSets, TLC

\* ------------------------------------------------------------- bounds
\* Timer ticks explored after the seed fetch.
MaxTicks == 2
\* market -r / -R commands explored.
MaxCommands == 2

\* ------------------------------------------------------------- text
Undefined == <<>>
Some(t) == <<t>>

TxtHeader == <<91, 25554, 20214, 24066, 22330, 26356, 26032, 93>>
TxtUpdated == <<26356, 26032, 65306>>
TxtDeleted == <<21024, 38500, 65306>>
TxtAdded == <<26032, 22686, 65306>>
TxtOpen == <<32, 40>>
TxtArrow == <<32, 8594, 32>>
TxtClose == <<41>>
TxtAt == <<32, 40, 64>>
TxtIndent == <<10, 32, 32>>
TxtNewline == <<10>>
TxtUndefined == <<117, 110, 100, 101, 102, 105, 110, 101, 100>>
\* String(<p><i18n path="market-info.created"></i18n></p>)
TxtCreatedElement ==
  <<60, 112, 62, 60, 105, 49, 56, 110, 32, 112, 97, 116, 104, 61, 34, 109,
    97, 114, 107, 101, 116, 45, 105, 110, 102, 111, 46, 99, 114, 101, 97,
    116, 101, 100, 34, 47, 62, 60, 47, 112, 62>>

NameA == <<97>>
NameB == <<98>>
NameC == <<99>>
Ver10 == <<49, 46, 48>>
Ver20 == <<50, 46, 48>>
Ver21 == <<50, 46, 49>>
UserU == <<117>>

\* a < b as JavaScript compares two strings: by code unit, a proper prefix first.
TextLess(a, b) ==
  \E i \in 1..Len(b) :
    /\ \A j \in 1..(i - 1) : j <= Len(a) /\ a[j] = b[j]
    /\ (i > Len(a) \/ a[i] < b[i])

\* `${x}` of an optional text.
Str(opt) == IF opt = Undefined THEN TxtUndefined ELSE opt[1]

\* !x of an optional text: undefined and "" are falsy.
Falsy(opt) == opt = Undefined \/ opt = Some(<<>>)

RECURSIVE Join(_, _)
Join(lines, sep) ==
  IF lines = <<>> THEN <<>>
  ELSE IF Len(lines) = 1 THEN lines[1]
  ELSE lines[1] \o sep \o Join(Tail(lines), sep)

\* ------------------------------------------------------------- catalog
NoDescription == [kind |-> "none", text |-> <<>>, zh |-> Undefined, en |-> Undefined]

Obj(n, v, h) ==
  [shortname |-> n, version |-> v, hidden |-> h, publisher |-> UserU,
   description |-> NoDescription]

\* The empty Dict {}.
EmptyDict == [n \in {} |-> NoDescription]

\* dict[key] = value
Put(dict, key, value) ==
  [n \in (DOMAIN dict) \cup {key} |-> IF n = key THEN value ELSE dict[n]]

\* A loop that skips every hidden object, whatever config.showHidden.
RECURSIVE makeDictFromDropsHidden(_, _, _, _)
makeDictFromDropsHidden(objects, i, dict, cfg) ==
  IF i > Len(objects) THEN dict
  ELSE IF objects[i].hidden
    THEN makeDictFromDropsHidden(objects, i + 1, dict, cfg)
  ELSE makeDictFromDropsHidden(objects, i + 1, Put(dict, objects[i].shortname, objects[i]), cfg)

\* The for loop of makeDict from position i on. The versions with a showHidden
\* option skip hidden objects unless it is set; index.ts keeps every object.
RECURSIVE makeDictFrom(_, _, _, _)
makeDictFrom(objects, i, dict, cfg) ==
  IF i > Len(objects) THEN dict
  ELSE IF cfg.variant # "index.ts" /\ objects[i].hidden /\ ~cfg.showHidden
    THEN makeDictFrom(objects, i + 1, dict, cfg)
  ELSE makeDictFrom(objects, i + 1, Put(dict, objects[i].shortname, objects[i]), cfg)

\* A makeDict that keeps every object, whatever config.showHidden.
makeDictAll(result, cfg) ==
  makeDictFrom(result, 1, EmptyDict, [cfg EXCEPT !.showHidden = TRUE])

makeDict(result, cfg) == makeDictFrom(result, 1, EmptyDict, cfg)

\* dict[name]?.package.version
VersionOf(dict, name) ==
  IF name \in DOMAIN dict THEN dict[name].version ELSE Undefined

\* ------------------------------------------------------------- diff
NoLine == [kind |-> "none", text |-> <<>>]
Throw == [kind |-> "throw", text |-> <<>>]

\* description.zh || description.en
ZhOrEn(d) == IF ~Falsy(d.zh) THEN d.zh ELSE d.en

\* The suffix appended for config.showDescription.
DescriptionSuffix(d) ==
  IF d.kind = "object" THEN TxtIndent \o Str(ZhOrEn(d))
  ELSE IF d.kind = "string" /\ d.text # <<>> THEN TxtIndent \o d.text
  ELSE <<>>

\* The Created branch. index.ts renders the name; the JSX versions render an
\* i18n element that is given no name, and read current[name], which throws a
\* TypeError when name is not a key of current (cur).
CreatedLine(name, cur, cfg) ==
  IF cfg.variant = "index.ts" THEN [kind |-> "created", text |-> TxtAdded \o name]
  ELSE IF (cfg.showPublisher \/ cfg.showDescription) /\ name \notin DOMAIN cur
    THEN Throw
  ELSE [kind |-> "created",
        text |-> TxtCreatedElement
                 \o (IF cfg.showPublisher
                       THEN TxtAt \o cur[name].publisher \o TxtClose ELSE <<>>)
                 \o (IF cfg.showDescription
                       THEN DescriptionSuffix(cur[name].description) ELSE <<>>)]

UpdatedLine(name, version1, version2) ==
  [kind |-> "updated",
   text |-> TxtUpdated \o name \o TxtOpen \o version1[1] \o TxtArrow
            \o version2[1] \o TxtClose]

RemovedLine(name, cfg) ==
  IF cfg.showDeletion THEN [kind |-> "removed", text |-> TxtDeleted \o name]
  ELSE NoLine

\* A diff that tests !version1 before comparing the versions.
LineOfFalsyFirst(name, prev, cur, cfg) ==
  LET version1 == VersionOf(prev, name)
      version2 == VersionOf(cur, name)
  IN IF Falsy(version1) /\ name \in DOMAIN cur THEN CreatedLine(name, cur, cfg)
     ELSE IF version1 = version2 THEN NoLine
     ELSE IF ~Falsy(version2) THEN UpdatedLine(name, version1, version2)
     ELSE RemovedLine(name, cfg)

\* The callback given to map().
LineOf(name, prev, cur, cfg) ==
  LET version1 == VersionOf(prev, name)
      version2 == VersionOf(cur, name)
  IN IF version1 = version2 THEN NoLine
     ELSE IF Falsy(version1) THEN CreatedLine(name, cur, cfg)
     ELSE IF ~Falsy(version2) THEN UpdatedLine(name, version1, version2)
     ELSE RemovedLine(name, cfg)

\* seq with text put after every element that is not greater than it.
RECURSIVE Insert(_, _)
Insert(seq, text) ==
  IF seq = <<>> THEN <<text>>
  ELSE IF TextLess(text, seq[1]) THEN <<text>> \o seq
  ELSE <<seq[1]>> \o Insert(Tail(seq), text)

\* sort() of the texts line[n], n in names.
RECURSIVE SortLines(_, _)
SortLines(names, line) ==
  IF names = {} THEN <<>>
  ELSE LET n == CHOOSE x \in names : TRUE
       IN Insert(SortLines(names \ {n}, line), line[n].text)

\* Object.keys({...previous, ...current}).map(...).filter(Boolean).sort(),
\* with prev and cur for previous and current.
\* ok is FALSE when the callback throws; events records, for each name, the
\* branch that was taken.
Diff(prev, cur, cfg) ==
  LET names == (DOMAIN prev) \cup (DOMAIN cur)
      line == [n \in names |-> LineOf(n, prev, cur, cfg)]
      kept == {n \in names : line[n].kind # "none"}
  IN IF \E n \in names : line[n].kind = "throw"
       THEN [ok |-> FALSE, lines |-> <<>>, events |-> [n \in names |-> line[n].kind]]
       ELSE [ok |-> TRUE, lines |-> SortLines(kept, line),
             events |-> [n \in names |-> line[n].kind]]

\* ['[插件市场更新]', ...diff].join('\n')
Content(lines) == Join(<<TxtHeader>> \o lines, TxtNewline)

\* ------------------------------------------------------------- dispatch
Id1 == <<49>>
Id2 == <<50>>
Id3 == <<51>>
Platform == "onebot"
Channel == "c1"

Receiver(selfId) ==
  [platform |-> Platform, selfId |-> selfId, channelId |-> Channel,
   guildId |-> Undefined]

Bot(selfId) == [platform |-> Platform, selfId |-> selfId]

\* Every bot that may be connected; ctx.bots is a subset of it at any moment.
Bots == {Bot(Id1), Bot(Id2)}

\* The bots connected while the market command is explored.
AllBots == Bots \cup {Bot(Id3)}

Event(op, index, to) == [op |-> op, index |-> index, to |-> to]

\* index.tsx: the for loop from rule i on (1-based), up to the next await or
\* the end. woken: the sleep before rule i has just been awaited. online is
\* ctx.bots. A rule that ctx.bots.find() does not match leaves bot undefined,
\* and bot.sendMessage throws.
RECURSIVE DispatchTsx(_, _, _, _, _, _)
DispatchTsx(i, woken, rls, delay, online, trace) ==
  IF ~woken /\ i > Len(rls) THEN [pc |-> "done", index |-> i, trace |-> trace]
  ELSE IF ~woken /\ i > 1 /\ delay # 0
    THEN [pc |-> "sleeping", index |-> i,
          trace |-> Append(trace, Event("sleep", i, Receiver(Undefined)))]
  ELSE IF i > Len(rls)
    THEN [pc |-> "failed", index |-> i,
          trace |-> Append(trace, Event("throw", i, Receiver(Undefined)))]
  ELSE IF rls[i].selfId = Undefined
          \/ [platform |-> rls[i].platform, selfId |-> rls[i].selfId[1]] \notin online
    THEN [pc |-> "failed", index |-> i,
          trace |-> Append(trace, Event("throw", i, rls[i]))]
  ELSE DispatchTsx(i + 1, FALSE, rls, delay, online,
                   Append(trace, Event("send", i, rls[i])))

\* What ctx.database.getChannel may resolve to.
LookupResults ==
  {[found |-> FALSE, assignee |-> Undefined]}
    \cup {[found |-> TRUE, assignee |-> a] : a \in {Undefined, Some(Id2)}}

\* part_000 and index.ts: the for-of loop from rule i on, up to the next await
\* or the end. resolved: <<>>, or <<r>> when getChannel has just resolved to r
\* for rule i.
RECURSIVE DispatchLookup(_, _, _, _, _)
DispatchLookup(i, resolved, rls, online, trace) ==
  IF i > Len(rls) THEN [pc |-> "done", index |-> i, trace |-> trace]
  ELSE IF Falsy(rls[i].selfId) /\ resolved = <<>>
    THEN [pc |-> "lookup", index |-> i, trace |-> trace]
  ELSE IF Falsy(rls[i].selfId)
          /\ (~resolved[1].found \/ Falsy(resolved[1].assignee))
    THEN [pc |-> "done", index |-> i,
          trace |-> Append(trace, Event("return", i, rls[i]))]
  ELSE LET selfId == IF Falsy(rls[i].selfId) THEN resolved[1].assignee
                     ELSE rls[i].selfId
           to == [rls[i] EXCEPT !.selfId = selfId]
       IN DispatchLookup(i + 1, <<>>, rls, online,
            Append(trace,
              Event(IF Bot(selfId[1]) \in online THEN "send" ELSE "skip", i, to)))

\* The dispatch loop entered after the digest is built.
Dispatch(cfg, rls, online) ==
  IF cfg.variant = "index.tsx" THEN DispatchTsx(1, FALSE, rls, cfg.delay, online, <<>>)
  ELSE DispatchLookup(1, <<>>, rls, online, <<>>)

\* ------------------------------------------------------------- state
VARIABLES
  config,      \* the plugin's config, rules apart
  rules,       \* config.rules
  phase,       \* the ready handler: "init", "seeding", "running", "dead"
  previous,    \* the stored snapshot (let previous)
  ticks,       \* timer callbacks started so far
  cycle,       \* cycle[c]: the c-th timer callback, see IdleCycle
  commands,    \* history: the market -r / -R commands handled so far
  seedFetches, \* history: getMarket calls made by the ready handler
  lastFetched, \* history: the snapshot of the latest getMarket that resolved
  lastDocument \* history: the document that getMarket read

vars ==
  <<config, rules, phase, previous, ticks, cycle, commands, seedFetches, lastFetched,
    lastDocument>>

Cycles == 1..MaxTicks

\* pc: "idle" (not started), "fetching" (await getMarket), "sleeping" (await
\* sleep before rule index), "lookup" (await getChannel for rule index), "done"
\* (returned), "failed" (rejected). content and index are the callback's locals;
\* the other fields are history: fetch ("none", "ok", "failed"), document (the
\* document getMarket read), fetched (the snapshot getMarket returned),
\* oldDocument (the document previous was built from), old (previous as the
\* diff read it), diff (the result of the diff), writes (assignments to
\* previous), list and n (config.rules and its length when the loop began) and
\* trace (the loop's sends, sleeps, skips and throws).
IdleCycle ==
  [pc |-> "idle", index |-> 0, content |-> <<>>, fetch |-> "none",
   document |-> <<>>, fetched |-> EmptyDict,
   oldDocument |-> <<>>, old |-> EmptyDict,
   diff |-> [ok |-> TRUE, lines |-> <<>>, events |-> EmptyDict],
   writes |-> 0, list |-> <<>>, n |-> 0, trace |-> <<>>]

\* ------------------------------------------------------------- inputs
\* Catalog documents the endpoint may serve while the scheduler is explored:
\* one package, absent, at version 1.0 or with an empty version.
Catalogs ==
  {<<>>} \cup {<<Obj(NameA, v, FALSE)>> : v \in {Some(Ver10), Some(<<>>)}}

\* Catalog documents for the diff: two packages, each absent or carrying a
\* version that is missing, empty, 1.0 or 2.0; and the two catalogs of the
\* spec's scenario.
DiffVersions == {Undefined, Some(<<>>), Some(Ver10), Some(Ver20)}
DiffEntries(n) == {<<>>} \cup {<<Obj(n, v, FALSE)>> : v \in DiffVersions}
ScenarioPrevious == <<Obj(NameA, Some(Ver10), FALSE), Obj(NameB, Some(Ver20), FALSE)>>
ScenarioCurrent == <<Obj(NameB, Some(Ver21), FALSE), Obj(NameC, Some(Ver10), FALSE)>>
DiffCatalogs ==
  {a \o b : a \in DiffEntries(NameA), b \in DiffEntries(NameB)}
    \cup {ScenarioPrevious, ScenarioCurrent}

\* Catalog documents with hidden objects: package a absent, shown, hidden, or
\* listed twice under the same shortname (one record hidden, one shown), and
\* package b absent or hidden.
HiddenEntries ==
  {<<>>, <<Obj(NameA, Some(Ver10), FALSE)>>, <<Obj(NameA, Some(Ver10), TRUE)>>,
   <<Obj(NameA, Some(Ver10), TRUE), Obj(NameA, Some(Ver10), FALSE)>>,
   <<Obj(NameA, Some(Ver10), FALSE), Obj(NameA, Some(Ver10), TRUE)>>}
HiddenCatalogs ==
  {a \o b : a \in HiddenEntries, b \in {<<>>, <<Obj(NameB, Some(Ver20), TRUE)>>}}

Cfg(variant, hidden, deletion, publisher, description, delay) ==
  [variant |-> variant, showHidden |-> hidden, showDeletion |-> deletion,
   showPublisher |-> publisher, showDescription |-> description, delay |-> delay]

\* Configurations of the scheduler: index.tsx, and part_000 for the versions
\* that look the bot up (their loops are the same). Only index.tsx reads
\* delay.broadcast.
Configs ==
  {Cfg("index.tsx", FALSE, d, p, FALSE, w) : d \in BOOLEAN, p \in BOOLEAN, w \in {0, 1}}
    \cup {Cfg("part_000", FALSE, d, FALSE, FALSE, 0) : d \in BOOLEAN}

\* Configurations of the diff: index.tsx (part_000 has the same diff) and
\* index.ts, which has neither showHidden, showPublisher nor showDescription.

DiffConfigs ==
  {Cfg("index.tsx", FALSE, d, p, s, 0) : d \in BOOLEAN, p \in BOOLEAN, s \in BOOLEAN}
    \cup {Cfg("index.ts", FALSE, d, FALSE, FALSE, 0) : d \in BOOLEAN}

\* The market command: index.tsx with a broadcast delay, polling a catalog in
\* which one package comes and goes.
CommandConfigs == {Cfg("index.tsx", FALSE, TRUE, FALSE, FALSE, 1)}
CommandCatalogs == {<<>>, <<Obj(NameA, Some(Ver10), FALSE)>>}

\* Configurations of the versions that have showHidden.
HiddenConfigs ==
  {Cfg(v, h, d, FALSE, FALSE, 0) : v \in {"index.tsx", "part_000"}, h \in BOOLEAN, d \in BOOLEAN}

\* index.tsx requires selfId; the other versions look a missing one up.
Receivers(variant) ==
  IF variant = "index.tsx" THEN {Receiver(Some(Id1)), Receiver(Some(Id2))}
  ELSE {Receiver(Some(Id1)), Receiver(Undefined)}

\* The sessions that may run market -r / -R.
Sessions == Receivers("index.tsx") \cup {Receiver(Some(Id3))}

\* The destination lists explored: every list over the version's receivers
\* that names no receiver twice.
RuleLists(variant) ==
  {rls \in UNION {[1..k -> Receivers(variant)] : k \in 0..Cardinality(Receivers(variant))} :
     \A i, j \in 1..Len(rls) : rls[i] = rls[j] => i = j}

\* ------------------------------------------------------------- actions
\* ctx.on('ready'): the handler starts and awaits the seed getMarket().
Ready ==
  /\ phase = "init"
  /\ phase' = "seeding"
  /\ seedFetches' = seedFetches + 1
  /\ UNCHANGED <<config, rules, previous, ticks, cycle, commands, lastFetched, lastDocument>>

\* The seed getMarket() resolves: previous is set, then the command and the
\* timer are registered.
SeedOk(result) ==
  /\ phase = "seeding"
  /\ phase' = "running"
  /\ previous' = makeDict(result, config)
  /\ lastFetched' = makeDict(result, config)
  /\ lastDocument' = result
  /\ UNCHANGED <<config, rules, ticks, cycle, commands, seedFetches>>

\* The seed getMarket() rejects: the handler ends before registering anything.
SeedFail ==
  /\ phase = "seeding"
  /\ phase' = "dead"
  /\ UNCHANGED <<config, rules, previous, ticks, cycle, commands, seedFetches, lastFetched, lastDocument>>

\* A timer registered before the seed getMarket() is awaited.
TickBeforeSeed(limit) ==
  /\ phase \in {"seeding", "running"}
  /\ ticks < limit
  /\ ticks' = ticks + 1
  /\ cycle' = [cycle EXCEPT ![ticks + 1] = [IdleCycle EXCEPT !.pc = "fetching"]]
  /\ UNCHANGED <<config, rules, phase, previous, commands, seedFetches, lastFetched, lastDocument>>

\* A timer that skips the tick while an earlier callback has not settled.
TickWhenIdle(limit) ==
  /\ phase = "running"
  /\ ticks < limit
  /\ \A c \in Cycles : cycle[c].pc \in {"idle", "done", "failed"}
  /\ ticks' = ticks + 1
  /\ cycle' = [cycle EXCEPT ![ticks + 1] = [IdleCycle EXCEPT !.pc = "fetching"]]
  /\ UNCHANGED <<config, rules, phase, previous, commands, seedFetches, lastFetched, lastDocument>>

\* A timer that is registered although the seed getMarket() rejected.
TickThoughDead(limit) ==
  /\ phase \in {"running", "dead"}
  /\ ticks < limit
  /\ ticks' = ticks + 1
  /\ cycle' = [cycle EXCEPT ![ticks + 1] = [IdleCycle EXCEPT !.pc = "fetching"]]
  /\ UNCHANGED <<config, rules, phase, previous, commands, seedFetches, lastFetched, lastDocument>>

\* The timer fires: a new callback starts and awaits getMarket().
Tick(limit) ==
  /\ phase = "running"
  /\ ticks < limit
  /\ ticks' = ticks + 1
  /\ cycle' = [cycle EXCEPT ![ticks + 1] = [IdleCycle EXCEPT !.pc = "fetching"]]
  /\ UNCHANGED <<config, rules, phase, previous, commands, seedFetches, lastFetched, lastDocument>>

\* A failed getMarket() whose (empty) result is stored all the same.
FetchFailStores(c) ==
  /\ cycle[c].pc = "fetching"
  /\ cycle' = [cycle EXCEPT ![c] = [@ EXCEPT !.pc = "failed", !.fetch = "failed"]]
  /\ previous' = EmptyDict
  /\ UNCHANGED <<config, rules, phase, ticks, commands, seedFetches, lastFetched, lastDocument>>

\* getMarket() of callback c rejects: the callback rejects.
FetchFail(c) ==
  /\ cycle[c].pc = "fetching"
  /\ cycle' = [cycle EXCEPT ![c] = [@ EXCEPT !.pc = "failed", !.fetch = "failed"]]
  /\ UNCHANGED <<config, rules, phase, previous, ticks, commands, seedFetches, lastFetched, lastDocument>>

\* A callback that does not assign previous when a callback started by a
\* later tick has assigned it already.
AfterFetchNewest(c, result, current, d, online) ==
  LET base == [cycle[c] EXCEPT !.fetch = "ok", !.document = result,
                               !.fetched = current, !.oldDocument = lastDocument,
                               !.old = previous, !.diff = d]
      run == Dispatch(config, rules, online)
      stale == \E e \in Cycles : e > c /\ cycle[e].writes > 0
      stored == [base EXCEPT !.writes = IF stale THEN @ ELSE @ + 1]
  IN IF ~d.ok
       THEN /\ cycle' = [cycle EXCEPT ![c] = [base EXCEPT !.pc = "failed"]]
            /\ UNCHANGED previous
     ELSE /\ previous' = IF stale THEN previous ELSE current
          /\ IF d.lines = <<>>
               THEN cycle' = [cycle EXCEPT ![c] = [stored EXCEPT !.pc = "done"]]
               ELSE cycle' = [cycle EXCEPT ![c] =
                       [stored EXCEPT !.pc = run.pc, !.index = run.index,
                                      !.content = Content(d.lines),
                                      !.list = rules, !.n = Len(rules),
                                      !.trace = run.trace]]

\* A callback that assigns previous after the loop, when every send is made.
AfterFetchStoresLast(c, result, current, d, online) ==
  LET base == [cycle[c] EXCEPT !.fetch = "ok", !.document = result,
                               !.fetched = current, !.oldDocument = lastDocument,
                               !.old = previous, !.diff = d]
      run == Dispatch(config, rules, online)
  IN IF ~d.ok
       THEN /\ cycle' = [cycle EXCEPT ![c] = [base EXCEPT !.pc = "failed"]]
            /\ UNCHANGED previous
     ELSE IF d.lines = <<>>
       THEN /\ previous' = current
            /\ cycle' = [cycle EXCEPT ![c] = [base EXCEPT !.pc = "done", !.writes = @ + 1]]
     ELSE /\ previous' = IF run.pc = "done" THEN current ELSE previous
          /\ cycle' = [cycle EXCEPT ![c] =
                  [base EXCEPT !.pc = run.pc, !.index = run.index,
                               !.content = Content(d.lines),
                               !.writes = IF run.pc = "done" THEN @ + 1 ELSE @,
                               !.list = rules, !.n = Len(rules),
                               !.trace = run.trace]]

\* The callback from the diff to the first await of the loop, with the
\* document read, current and the result d of the diff.
AfterFetch(c, result, current, d, online) ==
  LET base == [cycle[c] EXCEPT !.fetch = "ok", !.document = result,
                               !.fetched = current, !.oldDocument = lastDocument,
                               !.old = previous, !.diff = d]
      run == Dispatch(config, rules, online)
  IN IF ~d.ok
       THEN /\ cycle' = [cycle EXCEPT ![c] = [base EXCEPT !.pc = "failed"]]
            /\ UNCHANGED previous
     ELSE /\ previous' = current
          /\ IF d.lines = <<>>
               THEN cycle' = [cycle EXCEPT ![c] =
                       [base EXCEPT !.pc = "done", !.writes = @ + 1]]
               ELSE cycle' = [cycle EXCEPT ![c] =
                       [base EXCEPT !.pc = run.pc, !.index = run.index,
                                    !.content = Content(d.lines),
                                    !.writes = @ + 1, !.list = rules,
                                    !.n = Len(rules),
                                    !.trace = run.trace]]

\* A callback that diffs against the snapshot of the callback started before
\* it, not against previous as it is when getMarket() resolves.
FetchOkDiffsPredecessor(c, result, online) ==
  /\ cycle[c].pc = "fetching"
  /\ AfterFetch(c, result, makeDict(result, config),
                Diff(IF c > 1 THEN cycle[c - 1].fetched ELSE previous,
                     makeDict(result, config), config), online)
  /\ lastFetched' = makeDict(result, config)
  /\ lastDocument' = result
  /\ UNCHANGED <<config, rules, phase, ticks, commands, seedFetches>>

\* getMarket() of callback c resolves to result while ctx.bots is online.
FetchOk(c, result, online) ==
  /\ cycle[c].pc = "fetching"
  /\ AfterFetch(c, result, makeDict(result, config),
                Diff(previous, makeDict(result, config), config), online)
  /\ lastFetched' = makeDict(result, config)
  /\ lastDocument' = result
  /\ UNCHANGED <<config, rules, phase, ticks, commands, seedFetches>>

\* index.tsx: the sleep of callback c ends; the loop goes on with rule index.
Wake(c, online) ==
  /\ cycle[c].pc = "sleeping"
  /\ LET run == DispatchTsx(cycle[c].index, TRUE, rules, config.delay, online,
                            cycle[c].trace)
     IN cycle' = [cycle EXCEPT ![c] =
                    [@ EXCEPT !.pc = run.pc, !.index = run.index, !.trace = run.trace]]
  /\ UNCHANGED <<config, rules, phase, previous, ticks, commands, seedFetches, lastFetched, lastDocument>>

\* part_000, index.ts: getChannel of callback c resolves to r.
Looked(c, r, online) ==
  /\ cycle[c].pc = "lookup"
  /\ LET run == DispatchLookup(cycle[c].index, <<r>>, rules, online, cycle[c].trace)
     IN cycle' = [cycle EXCEPT ![c] =
                    [@ EXCEPT !.pc = run.pc, !.index = run.index, !.trace = run.trace]]
  /\ UNCHANGED <<config, rules, phase, previous, ticks, commands, seedFetches, lastFetched, lastDocument>>

\* findIndex over config.rules: the first rule equal to the session's
\* receiver, 0 when there is none.
FindIndex(rls, session) ==
  IF \E i \in 1..Len(rls) : rls[i] = session
    THEN CHOOSE i \in 1..Len(rls) :
           rls[i] = session /\ \A j \in 1..(i - 1) : rls[j] # session
    ELSE 0

\* splice(index, 1)
Splice(rls, index) == SubSeq(rls, 1, index - 1) \o SubSeq(rls, index + 1, Len(rls))

\* A command that pushes or splices without looking at findIndex's result.
ReceivedUnchecked(rls, receive, session) ==
  IF receive THEN Append(rls, session)
  ELSE IF rls = <<>> THEN rls ELSE Splice(rls, Len(rls))

\* config.rules after market -r (receive) or market -R from session.
Received(rls, receive, session) ==
  IF receive
    THEN IF FindIndex(rls, session) > 0 THEN rls ELSE Append(rls, session)
    ELSE IF FindIndex(rls, session) = 0 THEN rls ELSE Splice(rls, FindIndex(rls, session))

\* What the command answers: '.not-modified' or '.updated'.
Answer(rls, receive, session) ==
  IF receive = (FindIndex(rls, session) > 0) THEN "not-modified" ELSE "updated"

\* index.tsx: the market command with -r or -R, registered after the seed.
\* ctx.scope.update(config, false) restarts nothing.
Command(receive, session) ==
  /\ config.variant = "index.tsx"
  /\ phase = "running"
  /\ Len(commands) < MaxCommands
  /\ commands' = Append(commands, [receive |-> receive, session |-> session,
                                    answer |-> Answer(rules, receive, session)])
  /\ rules' = Received(rules, receive, session)
  /\ UNCHANGED <<config, phase, previous, ticks, cycle, seedFetches, lastFetched, lastDocument>>

\* ------------------------------------------------------------- specifications
Init ==
  /\ config \in Configs
  /\ rules \in RuleLists(config.variant)
  /\ phase = "init"
  /\ previous = EmptyDict
  /\ ticks = 0
  /\ cycle = [c \in Cycles |-> IdleCycle]
  /\ commands = <<>>
  /\ seedFetches = 0
  /\ lastFetched = EmptyDict
  /\ lastDocument = <<>>

Next ==
  \/ Ready
  \/ \E result \in Catalogs : SeedOk(result)
  \/ SeedFail
  \/ Tick(MaxTicks)
  \/ \E c \in Cycles : FetchFail(c)
  \/ \E c \in Cycles, result \in Catalogs, online \in SUBSET Bots : FetchOk(c, result, online)
  \/ \E c \in Cycles, online \in SUBSET Bots : Wake(c, online)
  \/ \E c \in Cycles, r \in LookupResults, online \in SUBSET Bots : Looked(c, r, online)

Spec == Init /\ [][Next]_vars

\* The diff on its own: the plugin is running with any stored snapshot, one
\* destination, and polls once.
InitDiff ==
  /\ config \in DiffConfigs
  /\ rules = <<Receiver(Some(Id1))>>
  /\ phase = "running"
  /\ lastDocument \in DiffCatalogs
  /\ previous = makeDict(lastDocument, config)
  /\ ticks = 0
  /\ cycle = [c \in Cycles |-> IdleCycle]
  /\ commands = <<>>
  /\ seedFetches = 1
  /\ lastFetched = previous

NextDiff ==
  \/ Tick(1)
  \/ \E result \in DiffCatalogs, online \in {Bots} : FetchOk(1, result, online)

SpecDiff == InitDiff /\ [][NextDiff]_vars

\* Hidden objects: the plugin starts with one destination and polls catalogs
\* that hide and show packages.
InitHidden ==
  /\ config \in HiddenConfigs
  /\ rules = <<Receiver(Some(Id1))>>
  /\ phase = "init"
  /\ previous = EmptyDict
  /\ ticks = 0
  /\ cycle = [c \in Cycles |-> IdleCycle]
  /\ commands = <<>>
  /\ seedFetches = 0
  /\ lastFetched = EmptyDict
  /\ lastDocument = <<>>

NextHidden ==
  \/ Ready
  \/ \E result \in HiddenCatalogs : SeedOk(result)
  \/ Tick(MaxTicks)
  \/ \E c \in Cycles, result \in HiddenCatalogs, online \in {Bots} : FetchOk(c, result, online)

SpecHidden == InitHidden /\ [][NextHidden]_vars

\* The market command beside the scheduler, every bot connected.
InitCommand ==
  /\ config \in CommandConfigs
  /\ rules \in RuleLists(config.variant)
  /\ phase = "init"
  /\ previous = EmptyDict
  /\ ticks = 0
  /\ cycle = [c \in Cycles |-> IdleCycle]
  /\ commands = <<>>
  /\ seedFetches = 0
  /\ lastFetched = EmptyDict
  /\ lastDocument = <<>>

NextCommand ==
  \/ Ready
  \/ \E result \in CommandCatalogs : SeedOk(result)
  \/ SeedFail
  \/ Tick(MaxTicks)
  \/ \E c \in Cycles, result \in CommandCatalogs : FetchOk(c, result, AllBots)
  \/ \E c \in Cycles : Wake(c, AllBots)
  \/ \E receive \in BOOLEAN, session \in Sessions : Command(receive, session)

SpecCommand == InitCommand /\ [][NextCommand]_vars

\* ------------------------------------------------------------- claims
Finished(c) == cycle[c].pc \in {"done", "failed"}

\* The callback of cycle c got as far as building a digest.
Digested(c) == cycle[c].fetch = "ok" /\ cycle[c].diff.ok /\ cycle[c].diff.lines # <<>>

\* Rule j of cycle c was reached by the loop.
Attempted(c, j) == \E k \in 1..Len(cycle[c].trace) : cycle[c].trace[k].index = j

\* C1: for every name of the two snapshots a cycle compared, the diff takes the
\* Created branch iff the name is absent from previous and present in current,
\* the Removed branch iff it is present in previous, absent from current and
\* showDeletion is on, the Updated branch iff it is present in both with
\* different versions, and no branch when both versions are equal; whatever the
\* version fields hold.
C1_DiffByPresence ==
  \A c \in Cycles :
    cycle[c].fetch = "ok" =>
      \A n \in (DOMAIN cycle[c].old) \cup (DOMAIN cycle[c].fetched) :
        LET inOld == n \in DOMAIN cycle[c].old
            inNew == n \in DOMAIN cycle[c].fetched
            event == cycle[c].diff.events[n]
        IN /\ (event = "created") <=> (~inOld /\ inNew)
           /\ (event = "removed") <=> (inOld /\ ~inNew /\ config.showDeletion)
           /\ (event = "updated") <=>
                (inOld /\ inNew /\ cycle[c].old[n].version # cycle[c].fetched[n].version)
           /\ event \in {"created", "removed", "updated", "none"}

\* C2: every cycle whose fetch succeeded has replaced the stored snapshot by the
\* fetched one exactly once, whether or not its diff is empty.
C2_ReplacedOnce ==
  \A c \in Cycles : cycle[c].fetch = "ok" => cycle[c].writes = 1

\* C3: a cycle whose fetch fails leaves previous as it is (the step that fails
\* the fetch does not change it, and the cycle never assigns it), computes no
\* diff and sends nothing.
C3_FailedFetchInert ==
  /\ [](\A c \in Cycles :
          cycle[c].fetch = "failed" =>
            /\ cycle[c].pc = "failed"
            /\ cycle[c].writes = 0
            /\ cycle[c].diff = IdleCycle.diff
            /\ cycle[c].content = <<>>
            /\ cycle[c].trace = <<>>)
  /\ [][\A c \in Cycles :
          (cycle[c].fetch = "none" /\ cycle'[c].fetch = "failed") => previous' = previous]_vars

C3_Witness ==
  \E c \in Cycles :
    /\ cycle[c].fetch = "failed"
    /\ previous # EmptyDict
    /\ \E d \in Cycles : Len(cycle[d].trace) > 0

\* C4: a cycle that fetched a snapshot identical to the stored one has an empty
\* change list, builds no digest, and ends without a send or a delay.
C4_NoChangeNoSend ==
  \A c \in Cycles :
    (cycle[c].fetch = "ok" /\ cycle[c].fetched = cycle[c].old) =>
      /\ cycle[c].diff.ok
      /\ cycle[c].diff.lines = <<>>
      /\ cycle[c].content = <<>>
      /\ cycle[c].trace = <<>>
      /\ cycle[c].pc = "done"

C4_Witness ==
  \E c \in Cycles :
    /\ cycle[c].fetch = "ok"
    /\ cycle[c].fetched = cycle[c].old
    /\ cycle[c].old # EmptyDict
    /\ rules # <<>>

\* The trace of N sends in list order with a delay between every two.
PacedTrace(rls) ==
  [k \in 1..(2 * Len(rls) - 1) |->
     IF k % 2 = 1 THEN Event("send", (k + 1) \div 2, rls[(k + 1) \div 2])
     ELSE Event("sleep", (k \div 2) + 1, Receiver(Undefined))]

\* C5: with a broadcast delay, a finished cycle that built a digest has sent it
\* to each of the N destinations, in list order, with exactly one delay between
\* every two consecutive sends and none before the first.
C5_PacedSends ==
  \A c \in Cycles :
    (Finished(c) /\ Digested(c) /\ config.delay # 0 /\ rules # <<>>) =>
      cycle[c].trace = PacedTrace(rules)

\* C6: a destination whose bot is not connected is skipped without an error,
\* and every later destination is still attempted.
C6_OfflineSkipped ==
  \A c \in Cycles :
    Finished(c) =>
      \A k \in 1..Len(cycle[c].trace) :
        cycle[c].trace[k].op \in {"skip", "throw"} =>
          /\ cycle[c].trace[k].op = "skip"
          /\ cycle[c].pc = "done"
          /\ \A j \in (cycle[c].trace[k].index + 1)..cycle[c].n : Attempted(c, j)

\* C7: a destination without selfId whose channel has no record or no assignee
\* gets nothing, raises no error, and every other destination of the list, before
\* or after it, is still served.
C7_UnassignedIsolated ==
  \A c \in Cycles :
    Finished(c) =>
      \A k \in 1..Len(cycle[c].trace) :
        cycle[c].trace[k].op = "return" =>
          /\ cycle[c].pc = "done"
          /\ \A j \in 1..cycle[c].n :
               j # cycle[c].trace[k].index =>
                 \E m \in 1..Len(cycle[c].trace) :
                   cycle[c].trace[m].index = j /\ cycle[c].trace[m].op \in {"send", "skip"}

\* The lines of the spec's scenario, as the spec gives them.
ScenarioLines ==
  <<TxtDeleted \o NameA,
    TxtAdded \o NameC,
    TxtUpdated \o NameB \o TxtOpen \o Ver20 \o TxtArrow \o Ver21 \o TxtClose>>

\* C8: the digest of a cycle is the header line followed by the non-empty
\* change lines in ascending order of their text; and for previous {a: 1.0,
\* b: 2.0}, current {b: 2.1, c: 1.0} with deletions shown and neither publisher
\* nor description, the lines are Removed a, Created c, Updated b (2.0 -> 2.1).
C8_DigestSorted ==
  \A c \in Cycles :
    Digested(c) =>
      /\ cycle[c].content = Join(<<TxtHeader>> \o cycle[c].diff.lines, TxtNewline)
      /\ \A i \in 1..Len(cycle[c].diff.lines) :
           /\ cycle[c].diff.lines[i] # <<>>
           /\ \A j \in (i + 1)..Len(cycle[c].diff.lines) :
                ~TextLess(cycle[c].diff.lines[j], cycle[c].diff.lines[i])
      /\ ( /\ cycle[c].old = makeDict(ScenarioPrevious, config)
           /\ cycle[c].fetched = makeDict(ScenarioCurrent, config)
           /\ config.showDeletion /\ ~config.showPublisher /\ ~config.showDescription )
         => cycle[c].diff.lines = ScenarioLines

\* C9: the ready handler makes exactly one seed fetch; no timer callback starts
\* before that fetch has resolved; the step that resolves it stores the snapshot
\* and starts no cycle, so nothing is diffed or sent; and from then on the timer
\* can always fire (up to the explored number of ticks), each firing starting a
\* callback at its getMarket().
C9_SeedThenTicks ==
  /\ [](/\ seedFetches <= 1
        /\ (phase # "init" => seedFetches = 1)
        /\ (phase # "running" =>
              ticks = 0 /\ previous = EmptyDict /\ \A c \in Cycles : cycle[c] = IdleCycle)
        /\ ((phase = "running" /\ ticks < MaxTicks) => ENABLED Tick(MaxTicks)))
  /\ [][/\ (phase = "seeding" /\ phase' = "running") =>
             (previous' = lastFetched' /\ cycle' = cycle /\ seedFetches' = seedFetches)
        /\ (ticks' # ticks) =>
             (ticks' = ticks + 1 /\ cycle[ticks'] = IdleCycle
                /\ cycle'[ticks'] = [IdleCycle EXCEPT !.pc = "fetching"])]_vars

C9_Witness ==
  /\ phase = "running"
  /\ seedFetches = 1
  /\ previous # EmptyDict
  /\ ticks >= 2
  /\ \E c \in Cycles : cycle[c].pc = "fetching"

\* C10: a failed cycle does not stop the scheduler (the plugin stays running and
\* the timer can fire again), and every cycle whose fetch succeeds diffs against
\* the snapshot of the latest fetch that succeeded before it.
C10_DiffAgainstLastFetched ==
  /\ [](phase = "running" => previous = lastFetched)
  /\ []((phase = "running" /\ ticks < MaxTicks) => ENABLED Tick(MaxTicks))
  /\ [][/\ phase = "running" => phase' = "running"
        /\ \A c \in Cycles :
             (cycle[c].fetch = "none" /\ cycle'[c].fetch = "ok") =>
               cycle'[c].old = lastFetched]_vars

\* The document doc has a record for name n that makeDict is to keep.
Included(doc, n) ==
  \E i \in 1..Len(doc) : doc[i].shortname = n /\ (~doc[i].hidden \/ config.showHidden)

\* The snapshot dict has an entry for exactly the names of doc that are to be
\* kept, and each entry is a record of doc under that name.
SnapshotOf(dict, doc) ==
  /\ \A n \in {NameA, NameB, NameC} : (n \in DOMAIN dict) <=> Included(doc, n)
  /\ \A n \in DOMAIN dict : \E i \in 1..Len(doc) : doc[i] = dict[n] /\ doc[i].shortname = n

\* C11: the snapshot built from a fetched document (by the seed fetch or by a
\* cycle) has an entry for a name iff the document has a record of that name
\* that is not hidden or showHidden is on; and with showHidden off no entry of
\* the stored snapshot is a hidden record.
C11_SnapshotFiltersHidden ==
  /\ phase = "running" => SnapshotOf(lastFetched, lastDocument)
  /\ \A c \in Cycles : cycle[c].fetch = "ok" => SnapshotOf(cycle[c].fetched, cycle[c].document)
  /\ ~config.showHidden => \A n \in DOMAIN previous : ~previous[n].hidden

C11_Witness ==
  /\ ~config.showHidden
  /\ \E c \in Cycles :
       /\ cycle[c].fetch = "ok"
       /\ previous = cycle[c].fetched
       /\ NameA \in DOMAIN previous
       /\ \E i, j \in 1..Len(cycle[c].document) :
            /\ cycle[c].document[i].hidden /\ cycle[c].document[i].shortname = NameA
            /\ cycle[c].document[j].hidden /\ cycle[c].document[j].shortname = NameB

\* The text holds name as a substring.
Contains(text, name) ==
  \E i \in 0..(Len(text) - Len(name)) : SubSeq(text, i + 1, i + Len(name)) = name

\* C12: in every diff that returns, the line of each package that takes the
\* Created branch contains the package's name, and the lines of two distinct
\* packages are different texts.
C12_CreatedLineNamesPackage ==
  \A c \in Cycles :
    (cycle[c].fetch = "ok" /\ cycle[c].diff.ok) =>
      LET line(n) == LineOf(n, cycle[c].old, cycle[c].fetched, config)
          kept == {n \in DOMAIN cycle[c].diff.events : cycle[c].diff.events[n] # "none"}
      IN /\ \A n \in kept :
              cycle[c].diff.events[n] = "created" => Contains(line(n).text, n)
         /\ \A n, m \in kept : n # m => line(n).text # line(m).text
         /\ Len(cycle[c].diff.lines) = Cardinality(kept)
\* Cycle c has started and is suspended at an await.
Outstanding(c) == cycle[c].pc \in {"fetching", "sleeping", "lookup"}

\* C13 as stated: at most one cycle is outstanding at any time.
C13_OneOutstanding ==
  \A c, d \in Cycles : (Outstanding(c) /\ Outstanding(d)) => c = d

\* C13, amended: the timer has no guard. While the plugin runs a tick can fire
\* whether or not earlier cycles are still suspended; it starts one new cycle
\* and leaves the suspended ones as they are; the outstanding cycles are among
\* the ticks fired so far; and each step runs one cycle only.
C13_TimerUnguarded ==
  /\ []((phase = "running" /\ ticks < MaxTicks) => ENABLED Tick(MaxTicks))
  /\ [](\A c \in Cycles : Outstanding(c) => c <= ticks)
  /\ [][/\ \A c, d \in Cycles : (cycle'[c] # cycle[c] /\ cycle'[d] # cycle[d]) => c = d
        /\ ticks' # ticks =>
             /\ cycle[ticks'].pc = "idle" /\ cycle'[ticks'].pc = "fetching"
             /\ \A c \in Cycles : c # ticks' => cycle'[c] = cycle[c]]_vars

C13_Witness ==
  \E c, d \in Cycles :
    /\ c < d
    /\ cycle[c].pc = "sleeping"
    /\ cycle[d].pc = "fetching"
IsSend(e) == e.op = "send"

\* C14: a cycle that built a digest and has settled has sent it to exactly the
\* destinations that were in config.rules when its loop began, each once and in
\* that order, and has not failed, whatever market -r / -R commands ran while
\* it was suspended at a delay.
C14_InFlightListFixed ==
  \A c \in Cycles :
    (Finished(c) /\ Digested(c)) =>
      LET sends == SelectSeq(cycle[c].trace, IsSend)
      IN /\ cycle[c].pc = "done"
         /\ Len(sends) = Len(cycle[c].list)
         /\ \A k \in 1..Len(sends) : sends[k].to = cycle[c].list[k]
\* The fetch of cycle c resolves in this step.
Resolves(c) == cycle[c].fetch = "none" /\ cycle'[c].fetch = "ok"

\* C15 as stated: once cycles have stored, previous is the snapshot fetched by
\* the latest started of them.
C15_NeverOlderFetch ==
  \A c \in Cycles :
    (cycle[c].writes = 1 /\ \A d \in Cycles : d > c => cycle[d].writes = 0) =>
      previous = cycle[c].fetched

\* C15, amended: in the step in which its fetch resolves a cycle stores its own
\* snapshot, whatever previous holds and whichever cycles have stored before,
\* unless its diff throws, and then it stores nothing; previous changes in no
\* other way after the seed. So previous is the snapshot of the fetch that
\* completed last among the cycles that stored, not of the one issued last.
C15_LastCompletedFetch ==
  [][/\ \A c \in Cycles :
          Resolves(c) =>
            /\ (cycle'[c].writes = 1) <=> cycle'[c].diff.ok
            /\ cycle'[c].diff.ok => previous' = cycle'[c].fetched
            /\ ~cycle'[c].diff.ok => previous' = previous
     /\ (phase = "running" /\ previous' # previous) =>
          \E c \in Cycles : Resolves(c) /\ previous' = cycle'[c].fetched]_vars

C15_Witness ==
  \E c, d \in Cycles :
    /\ c < d
    /\ cycle[c].writes = 1
    /\ cycle[d].writes = 1
    /\ previous = cycle[c].fetched
    /\ previous # cycle[d].fetched
ListedOnce(doc, n, h) ==
  /\ Cardinality({i \in 1..Len(doc) : doc[i].shortname = n}) = 1
  /\ \E i \in 1..Len(doc) : doc[i].shortname = n /\ doc[i].hidden = h

\* The text of the line that the diff of cycle c renders for n is in its lines.
HasLine(c, n) ==
  \E k \in 1..Len(cycle[c].diff.lines) :
    cycle[c].diff.lines[k] = LineOf(n, cycle[c].old, cycle[c].fetched, config).text

CutShort(c) ==
  \/ cycle[c].pc = "failed"
  \/ \E k \in 1..Len(cycle[c].trace) : cycle[c].trace[k].op \in {"throw", "return", "skip"}

\* C18: a cycle that builds a digest has replaced previous by the snapshot it
\* fetched in the very step that builds the digest, before any await of its
\* loop and whatever becomes of its sends; and a cycle whose fetch resolves to
\* the snapshot that previous holds announces nothing. So a cycle that fetches
\* the same catalog after a cycle whose sends were skipped, failed or cut short
\* does not announce that cycle's change again.
C18_AnnouncedOnce ==
  /\ [](\A c \in Cycles : Digested(c) => cycle[c].writes = 1)
  /\ [](\A c, d \in Cycles :
          (/\ c # d /\ Digested(c) /\ cycle[d].fetch = "ok"
           /\ cycle[d].old = cycle[c].fetched /\ cycle[d].fetched = cycle[c].fetched)
            => (cycle[d].diff.lines = <<>> /\ cycle[d].content = <<>> /\ cycle[d].trace = <<>>))
  /\ [][\A c \in Cycles :
          /\ (Resolves(c) /\ cycle'[c].diff.ok /\ cycle'[c].diff.lines # <<>>) =>
               previous' = cycle'[c].fetched
          /\ (Resolves(c) /\ cycle'[c].fetched = previous) =>
               (cycle'[c].diff.lines = <<>> /\ cycle'[c].trace = <<>>)
          /\ (~Resolves(c) /\ cycle'[c] # cycle[c] /\ cycle[c].fetch = "ok") =>
               previous' = previous]_vars

C18_Witness ==
  \E c, d \in Cycles :
    /\ c < d
    /\ Digested(c)
    /\ CutShort(c)
    /\ cycle[d].fetch = "ok"
    /\ cycle[d].old = cycle[c].fetched
    /\ cycle[d].fetched = cycle[c].fetched
    /\ cycle[d].pc = "done"
\* Neither the timer nor the command has acted or can act.
NothingRegistered ==
  /\ ticks = 0
  /\ cycle = [c \in Cycles |-> IdleCycle]
  /\ commands = <<>>
  /\ ~ENABLED Tick(MaxTicks)
  /\ \A receive \in BOOLEAN, session \in Sessions : ~ENABLED Command(receive, session)

\* C19: until the seed fetch has resolved, and for ever when it rejects, no
\* timer tick and no market command can happen, no cycle has run, no snapshot is
\* stored and nothing has been sent; a plugin whose seed fetch rejected stays
\* that way.
C19_SeedFailureInert ==
  /\ [](phase # "running" => (NothingRegistered /\ previous = EmptyDict))
  /\ [][phase = "dead" => (phase' = "dead" /\ rules' = rules)]_vars

C19_Witness ==
  /\ phase = "dead"
  /\ seedFetches = 1
  /\ rules # <<>>
\* The number of entries of rls equal to s.
Count(rls, s) == Cardinality({i \in 1..Len(rls) : rls[i] = s})

\* C20: config.rules never holds two equal entries; market -r from a session
\* whose receiver is not in the list appends it and answers updated; market -R
\* from a session whose receiver is in the list removes that entry, keeps the
\* others in order, and answers updated; either command otherwise leaves the list
\* as it is and answers not-modified; and nothing else changes the list.
C20_RulesNoDuplicates ==
  /\ [](\A i, j \in 1..Len(rules) : rules[i] = rules[j] => i = j)
  /\ [][/\ Len(commands') = Len(commands) => rules' = rules
        /\ Len(commands') # Len(commands) =>
             LET cmd == commands'[Len(commands')]
                 had == Count(rules, cmd.session) > 0
             IN /\ Len(commands') = Len(commands) + 1
                /\ Count(rules', cmd.session) = (IF cmd.receive THEN 1 ELSE 0)
                /\ (cmd.receive /\ ~had) =>
                     (rules' = Append(rules, cmd.session) /\ cmd.answer = "updated")
                /\ (~cmd.receive /\ had) =>
                     /\ cmd.answer = "updated"
                     /\ \E i \in 1..Len(rules) :
                          /\ rules[i] = cmd.session
                          /\ rules' = SubSeq(rules, 1, i - 1) \o SubSeq(rules, i + 1, Len(rules))
                /\ (cmd.receive = had) =>
                     (rules' = rules /\ cmd.answer = "not-modified")]_vars

C20_Witness ==
  /\ Len(commands) = 2
  /\ commands[1].receive
  /\ commands[1].answer = "updated"
  /\ commands[2].receive
  /\ commands[2].session = commands[1].session
  /\ commands[2].answer = "not-modified"
  /\ Count(rules, commands[1].session) = 1
====
